---- MODULE Spec2Model ----
(***************************************************************************)
(* A model of the BIBLEFIGHT tool server (src/src/BIBLEFIGHT/server.py):   *)
(* the two tool handlers analyze_claim and get_reference, the candidate    *)
(* and challenger resolution they run, the passage fetcher, the snippet    *)
(* builder and the reference normalizer.  Spec runs one invocation at a    *)
(* time, ConcSpec interleaves two at their awaits, SnippetSpec and         *)
(* NormalizeSpec apply make_snippet and _normalize_api_bible_id alone.     *)
(*                                                                         *)
(* A Python str is a sequence of one-character strings, so that case       *)
(* folding, trimming, splitting and slicing are computed, not assumed.     *)
(* An Optional value is <<>> for None and <<v>> for a value v.  A handler  *)
(* is cut into steps at its awaits: one action is one awaited call of an   *)
(* external collaborator together with all the code that runs up to the    *)
(* next await.  ctx.warning and the logger only emit diagnostics and are   *)
(* not part of the state.                                                  *)
(***************************************************************************)
EXTENDS Integers, Sequences, FiniteSets, TLC

\* ------------------------------------------------------------- bounds

\* longest reference list a search answer carries
MaxRefs == 2
\* largest DEFAULT_MAX_RESULTS the environment sets (the smallest is -1)
MaxResults == 3
\* most dash-separated sides of an identifier handed to
\* _normalize_api_bible_id
MaxSides == 3
\* longest text handed to make_snippet
MaxLen == 4
\* largest limit handed to make_snippet (the smallest is -1)
MaxLimit == 4

\* ------------------------------------------------- Python str and list

ascii_lowercase == <<"a", "b", "c", "d", "e", "f", "g", "h", "i", "j", "k", "l", "m", "n", "o", "p", "q", "r", "s", "t", "u", "v", "w", "x", "y", "z">>
ascii_uppercase == <<"A", "B", "C", "D", "E", "F", "G", "H", "I", "J", "K", "L", "M", "N", "O", "P", "Q", "R", "S", "T", "U", "V", "W", "X", "Y", "Z">>

None == <<>>
Some(v) == <<v>>

\* Python truthiness of an Optional[str]: None and "" are falsy
truthy(opt) == opt # None /\ opt[1] # <<>>

\* `a or b` on an Optional[str] a and a str b
or_default(opt, default) == IF truthy(opt) THEN opt[1] ELSE default

max(a, b) == IF a >= b THEN a ELSE b
min(a, b) == IF a <= b THEN a ELSE b

isspace(c) == c \in {" ", "\n", "\t"}
isdigit(c) == c \in {"0", "1", "2", "3", "4", "5", "6", "7", "8", "9"}

index_in(c, alphabet) ==
    IF \E i \in 1..Len(alphabet) : alphabet[i] = c
    THEN CHOOSE i \in 1..Len(alphabet) : alphabet[i] = c
    ELSE 0

upper_char(c) ==
    LET i == index_in(c, ascii_lowercase)
    IN  IF i = 0 THEN c ELSE ascii_uppercase[i]

lower_char(c) ==
    LET i == index_in(c, ascii_uppercase)
    IN  IF i = 0 THEN c ELSE ascii_lowercase[i]

\* str.upper(), str.lower()
upper(s) == [i \in 1..Len(s) |-> upper_char(s[i])]
lower(s) == [i \in 1..Len(s) |-> lower_char(s[i])]

\* str.replace(old, new) for one-character old and new
replace(s, old, new) == [i \in 1..Len(s) |-> IF s[i] = old THEN new ELSE s[i]]

RECURSIVE lstrip(_)
lstrip(s) == IF s # <<>> /\ isspace(Head(s)) THEN lstrip(Tail(s)) ELSE s

RECURSIVE rstrip(_)
rstrip(s) ==
    IF s # <<>> /\ isspace(s[Len(s)]) THEN rstrip(SubSeq(s, 1, Len(s) - 1)) ELSE s

\* strip with the fault that nothing is trimmed
strip_nothing(s) == s

\* str.strip()
strip(s) == lstrip(rstrip(s))

\* `w in text` for two str
contains(text, w) ==
    \E i \in 1..(Len(text) - Len(w) + 1) : SubSeq(text, i, i + Len(w) - 1) = w

\* seq[:stop], with Python's meaning of a negative stop
slice_to(seq, stop) ==
    IF stop >= 0 THEN SubSeq(seq, 1, min(stop, Len(seq)))
    ELSE SubSeq(seq, 1, max(0, Len(seq) + stop))

\* the first position >= from of s that satisfies Test, or Len(s) + 1
find_from(s, from, Test(_)) ==
    IF \E i \in from..Len(s) : Test(s[i])
    THEN CHOOSE i \in from..Len(s) : Test(s[i]) /\ \A j \in from..(i - 1) : ~Test(s[j])
    ELSE Len(s) + 1

\* str.split(sep) for a one-character sep: empty fields are kept
RECURSIVE split(_, _)
split(s, sep) ==
    LET IsSep(c) == c = sep
        i == find_from(s, 1, IsSep)
    IN  IF i > Len(s) THEN <<s>>
        ELSE <<SubSeq(s, 1, i - 1)>> \o split(SubSeq(s, i + 1, Len(s)), sep)

\* str.split() with no argument: the runs of non-whitespace
RECURSIVE split_whitespace(_)
split_whitespace(s) ==
    LET t == lstrip(s)
        i == find_from(t, 1, isspace)
    IN  IF t = <<>> THEN <<>>
        ELSE <<SubSeq(t, 1, i - 1)>> \o split_whitespace(SubSeq(t, i, Len(t)))

\* sep.join(parts)
RECURSIVE join(_, _)
join(sep, parts) ==
    IF parts = <<>> THEN <<>>
    ELSE IF Len(parts) = 1 THEN parts[1]
    ELSE parts[1] \o sep \o join(sep, Tail(parts))

\* [f(x) for x in xs if x]: the non-empty elements of xs
RECURSIVE non_empty(_)
non_empty(xs) ==
    IF xs = <<>> THEN <<>>
    ELSE IF Head(xs) = <<>> THEN non_empty(Tail(xs))
    ELSE <<Head(xs)>> \o non_empty(Tail(xs))

\* all sequences over S of length at most n
SeqsUpTo(S, n) == UNION {[1..k -> S] : k \in 0..n}

\* ------------------------------------------ constants of server.py

S_empty_claim == <<"E", "m", "p", "t", "y", " ", "c", "l", "a", "i", "m">>
S_empty_reference == <<"E", "m", "p", "t", "y", " ", "r", "e", "f", "e", "r", "e", "n", "c", "e">>
S_reference_not_found == <<"R", "e", "f", "e", "r", "e", "n", "c", "e", " ", "n", "o", "t", " ", "f", "o", "u", "n", "d", ":", " ">>
S_passage_base == <<"h", "t", "t", "p", "s", ":", "/", "/", "b", "i", "b", "l", "e", "-", "a", "p", "i", ".", "c", "o", "m", "/">>
S_translation_query == <<"?", "t", "r", "a", "n", "s", "l", "a", "t", "i", "o", "n", "=">>
\* the one character U+2026 (horizontal ellipsis), a single element
S_ellipsis == <<"...">>

money_words == {<<"m", "o", "n", "e", "y">>, <<"w", "e", "a", "l", "t", "h">>, <<"r", "i", "c", "h">>}
helps_themselves == <<"h", "e", "l", "p", "s", " ", "t", "h", "e", "m", "s", "e", "l", "v", "e", "s">>

candidate_money_refs ==
    << <<"1", " ", "T", "i", "m", "o", "t", "h", "y", " ", "6", ":", "1", "0">>,
       <<"M", "a", "t", "t", "h", "e", "w", " ", "6", ":", "2", "4">>,
       <<"P", "r", "o", "v", "e", "r", "b", "s", " ", "1", "1", ":", "2", "8">> >>
candidate_helps_refs ==
    << <<"P", "r", "o", "v", "e", "r", "b", "s", " ", "2", "8", ":", "2", "6">>,
       <<"P", "s", "a", "l", "m", " ", "3", "7", ":", "5">>,
       <<"J", "e", "r", "e", "m", "i", "a", "h", " ", "1", "7", ":", "5">>,
       <<"M", "a", "t", "t", "h", "e", "w", " ", "6", ":", "3", "3">> >>
candidate_other_refs ==
    << <<"J", "o", "h", "n", " ", "3", ":", "1", "6">>,
       <<"P", "s", "a", "l", "m", " ", "2", "3", ":", "1", "-", "3">>,
       <<"M", "a", "t", "t", "h", "e", "w", " ", "5", ":", "9", "-", "1", "2">> >>
challenger_money_refs ==
    << <<"M", "a", "t", "t", "h", "e", "w", " ", "5", ":", "9", "-", "1", "2">>,
       <<"L", "u", "k", "e", " ", "1", "2", ":", "1", "5">>,
       <<"J", "a", "m", "e", "s", " ", "5", ":", "1", "-", "6">> >>
challenger_helps_refs ==
    << <<"E", "p", "h", "e", "s", "i", "a", "n", "s", " ", "2", ":", "8", "-", "9">>,
       <<"P", "s", "a", "l", "m", " ", "1", "2", "1", ":", "1", "-", "2">>,
       <<"P", "r", "o", "v", "e", "r", "b", "s", " ", "3", ":", "5", "-", "6">> >>
challenger_other_refs ==
    << <<"R", "o", "m", "a", "n", "s", " ", "3", ":", "2", "3">>,
       <<"E", "p", "h", "e", "s", "i", "a", "n", "s", " ", "2", ":", "8", "-", "9">>,
       <<"M", "i", "c", "a", "h", " ", "6", ":", "8">> >>

\* ------------------------------------------------ the inputs explored

\* args.claim
ClaimPool ==
    { <<>>,
      <<" ", "\n">>,
      <<" ", "R", "I", "C", "H", " ">>,
      <<"W", "e", "a", "l", "t", "h", " ", "h", "e", "l", "p", "s", " ", "t", "h", "e", "m", "s", "e", "l", "v", "e", "s">>,
      <<"h", "e", "l", "p", "s", " ", "t", "h", "e", "m", "s", "e", "l", "v", "e", "s">>,
      <<"p", "e", "a", "c", "e">> }

\* args.translation
TranslationPool == { None, Some(<<"K", "J", "V">>) }

\* a reference as the search API reports it
SearchRefPool ==
    { <<"J", "n", " ", "3">>,
      <<"J", "N", " ", "3", " ">>,
      <<" ">>,
      <<"1", " ", "T", "i", "m", " ", "6">> }

\* response.text of a sampling answer
SampleTextPool ==
    { None,
      Some(<<";">>),
      Some(<<"J", "n", " ", "3", ";", "\n", "j", "n", " ", "3", " ", ";", "P", "s", " ", "1">>),
      Some(<<"1", " ", "T", "i", "m", " ", "6", ";", " ", "J", "n", " ", "3">>) }

\* args.reference of get_reference
ReferencePool ==
    { <<>>,
      <<" ", "\t">>,
      <<" ", "J", "n", " ", "3", " ">>,
      <<"1", " ", "T", "i", "m", " ", "6">>,
      <<"1", "2", " ", "J", "n">>,
      <<"2", " ", " ", "P", "\n", "x">> }

\* the verse texts of a passage answer
VersesPool ==
    { <<>>, << <<" ", "a", "\n">>, <<"b", " ", " ", "c", " ">> >> }

\* ------------------------------------------- pure functions of server.py

\* _fallback_candidate_refs with the fault that the keywords are matched
\* against the claim as written, not against its lower-case form
_fallback_candidate_refs_case_sensitive(c, max_results) ==
    LET text == c
        refs == IF \E w \in money_words : contains(text, w) THEN candidate_money_refs
                ELSE IF contains(text, helps_themselves) THEN candidate_helps_refs
                ELSE candidate_other_refs
    IN  slice_to(refs, max(1, max_results))

_fallback_candidate_refs(c, max_results) ==
    LET text == lower(c)
        refs == IF \E w \in money_words : contains(text, w) THEN candidate_money_refs
                ELSE IF contains(text, helps_themselves) THEN candidate_helps_refs
                ELSE candidate_other_refs
    IN  slice_to(refs, max(1, max_results))

\* _fallback_challenger_refs with the fault that the cut may keep nothing
_fallback_challenger_refs_cut_to_nothing(c, max_results) ==
    LET text == lower(c)
        refs == IF \E w \in money_words : contains(text, w) THEN challenger_money_refs
                ELSE IF contains(text, helps_themselves) THEN challenger_helps_refs
                ELSE challenger_other_refs
    IN  slice_to(refs, max_results)

_fallback_challenger_refs(c, max_results) ==
    LET text == lower(c)
        refs == IF \E w \in money_words : contains(text, w) THEN challenger_money_refs
                ELSE IF contains(text, helps_themselves) THEN challenger_helps_refs
                ELSE challenger_other_refs
    IN  slice_to(refs, max(1, max_results))

\* what extract_references_via_llm and propose_challengers make of an answer:
\* sample is <<>> when ctx.sample raised, else <<response.text>>
parse_references(sample) ==
    IF sample = <<>> THEN <<>>
    ELSE LET text  == strip(or_default(sample[1], <<>>))
             split_parts == split(replace(text, "\n", " "), ";")
             parts == [i \in 1..Len(split_parts) |-> strip(split_parts[i])]
         IN  non_empty(parts)

\* fallback_needed with the fault that the heuristic table is used whatever
\* the sampling returned
fallback_always(refs) == TRUE

\* `if not candidate_refs:` after the sampling extraction
fallback_needed(refs) == refs = <<>>

\* dedup_key with the fault that the key keeps the letter case
dedup_key_keeps_case(r) == strip(r)

\* key = r.strip().upper()
dedup_key(r) == upper(strip(r))

\* the loop that fills unique_refs, started with the set `seen`
RECURSIVE unique_refs(_, _)
unique_refs(refs, seen) ==
    IF refs = <<>> THEN <<>>
    ELSE LET r   == Head(refs)
             key == dedup_key(r)
         IN  IF key # <<>> /\ key \notin seen
             THEN <<r>> \o unique_refs(Tail(refs), seen \cup {key})
             ELSE unique_refs(Tail(refs), seen)

\* cap_refs with the fault that the list is not truncated
cap_refs_missing(refs, max_results) == refs

\* unique_refs[: max(1, int(settings.DEFAULT_MAX_RESULTS))]
cap_refs(refs, max_results) == slice_to(refs, max(1, max_results))

\* "Deduplicate and cap" with the fault that the list is cut first
cap_and_deduplicate(refs, max_results) ==
    unique_refs(cap_refs(refs, max_results), {})

\* "Deduplicate and cap"
deduplicate_and_cap(refs, max_results) ==
    cap_refs(unique_refs(refs, {}), max_results)

\* make_snippet with the fault that the mark is appended to short texts too
make_snippet_always_marked(text, limit) ==
    LET s == join(<<" ">>, split_whitespace(text))
    IN  slice_to(s, limit - 1) \o S_ellipsis

\* make_snippet with the fault that the cut keeps limit characters before
\* the mark
make_snippet_one_too_long(text, limit) ==
    LET s == join(<<" ">>, split_whitespace(text))
    IN  IF Len(s) <= limit THEN s ELSE slice_to(s, limit) \o S_ellipsis

make_snippet(text, limit) ==
    LET s == join(<<" ">>, split_whitespace(text))
    IN  IF Len(s) <= limit THEN s ELSE slice_to(s, limit - 1) \o S_ellipsis

\* ordinal_alt with the fault that every reference gets the alternate
\* encoding
ordinal_alt_for_all(reference) ==
    Some(join(<<>>, split_whitespace(reference)))

\* re.match(r"^(\d)\s+(.*)$", reference) and the alt built from its groups:
\* None when the reference does not match
ordinal_alt(reference) ==
    IF Len(reference) >= 2 /\ isdigit(reference[1]) /\ isspace(reference[2])
    THEN LET NotSpace(c) == ~isspace(c)
             IsNewline(c) == c = "\n"
             k    == find_from(reference, 2, NotSpace)
             rest == SubSeq(reference, k, Len(reference))
             tail == IF rest # <<>> /\ rest[Len(rest)] = "\n"
                     THEN SubSeq(rest, 1, Len(rest) - 1) ELSE rest
         IN  IF find_from(tail, 1, IsNewline) > Len(tail)
             THEN Some(<<reference[1]>> \o tail)
             ELSE None
    ELSE None

\* f"https://bible-api.com/{ref_encoded}?translation={translation}"
passage_url(reference, tr) ==
    S_passage_base \o replace(reference, " ", "+") \o S_translation_query \o tr

\* an HTTP answer: client.get raises, or returns a status and a body whose
\* r.json() raises or yields data with a reference and a verse list; the
\* answers explored report no reference of their own
Responses ==
    [raises : {TRUE}, status_code : {0}, json_raises : {FALSE},
     reference : {<<>>}, verses : {<<>>}]
    \cup
    [raises : {FALSE}, status_code : {404}, json_raises : {FALSE},
     reference : {<<>>}, verses : {<<>>}]
    \cup
    [raises : {FALSE}, status_code : {200}, json_raises : {TRUE},
     reference : {<<>>}, verses : {<<>>}]
    \cup
    [raises : {FALSE}, status_code : {200}, json_raises : {FALSE},
     reference : {<<>>}, verses : VersesPool]

\* what a fetch yields: a Passage, None, or an exception
Raised == [kind |-> "raised", passage |-> <<>>]
Absent == [kind |-> "absent", passage |-> <<>>]
Fetched(p) == [kind |-> "passage", passage |-> p]

\* fetch_passage_with_context from `data = r.json()` on, for an answer with
\* status 200
read_passage(resp, reference, tr) ==
    IF resp.json_raises THEN Raised
    ELSE IF resp.verses = <<>> THEN Absent
    ELSE LET stripped == [i \in 1..Len(resp.verses) |-> strip(resp.verses[i])]
             text == join(<<" ">>, stripped)
         IN  Fetched([reference   |-> IF resp.reference # <<>> THEN resp.reference
                                      ELSE reference,
                      text        |-> strip(text),
                      translation |-> tr,
                      raw         |-> [reference |-> resp.reference,
                                       verses    |-> resp.verses]])

\* with_snippet with the fault that include_snippets is not consulted
with_snippet_whenever_limited(passage, inc, limit) ==
    IF limit # None
    THEN passage @@ [snippet       |-> make_snippet(passage.text, limit[1]),
                     snippet_chars |-> limit[1]]
    ELSE passage

\* passage["snippet"] = ...; passage["snippet_chars"] = snippet_limit
with_snippet(passage, inc, limit) ==
    IF inc /\ limit # None
    THEN passage @@ [snippet       |-> make_snippet(passage.text, limit[1]),
                     snippet_chars |-> limit[1]]
    ELSE passage

\* ------------------------------------------------ _normalize_api_bible_id

\* USFM_TO_BOOK, as the pairs <<book code, book name>>
USFM_TO_BOOK ==
    <<
      <<<<"G", "E", "N">>, <<"G", "e", "n", "e", "s", "i", "s">>>>,
      <<<<"E", "X", "O">>, <<"E", "x", "o", "d", "u", "s">>>>,
      <<<<"L", "E", "V">>, <<"L", "e", "v", "i", "t", "i", "c", "u", "s">>>>,
      <<<<"N", "U", "M">>, <<"N", "u", "m", "b", "e", "r", "s">>>>,
      <<<<"D", "E", "U">>, <<"D", "e", "u", "t", "e", "r", "o", "n", "o", "m", "y">>>>,
      <<<<"J", "O", "S">>, <<"J", "o", "s", "h", "u", "a">>>>,
      <<<<"J", "D", "G">>, <<"J", "u", "d", "g", "e", "s">>>>,
      <<<<"R", "U", "T">>, <<"R", "u", "t", "h">>>>,
      <<<<"1", "S", "A">>, <<"1", " ", "S", "a", "m", "u", "e", "l">>>>,
      <<<<"2", "S", "A">>, <<"2", " ", "S", "a", "m", "u", "e", "l">>>>,
      <<<<"1", "K", "I">>, <<"1", " ", "K", "i", "n", "g", "s">>>>,
      <<<<"2", "K", "I">>, <<"2", " ", "K", "i", "n", "g", "s">>>>,
      <<<<"1", "C", "H">>, <<"1", " ", "C", "h", "r", "o", "n", "i", "c", "l", "e", "s">>>>,
      <<<<"2", "C", "H">>, <<"2", " ", "C", "h", "r", "o", "n", "i", "c", "l", "e", "s">>>>,
      <<<<"E", "Z", "R">>, <<"E", "z", "r", "a">>>>,
      <<<<"N", "E", "H">>, <<"N", "e", "h", "e", "m", "i", "a", "h">>>>,
      <<<<"E", "S", "T">>, <<"E", "s", "t", "h", "e", "r">>>>,
      <<<<"J", "O", "B">>, <<"J", "o", "b">>>>,
      <<<<"P", "S", "A">>, <<"P", "s", "a", "l", "m", "s">>>>,
      <<<<"P", "R", "O">>, <<"P", "r", "o", "v", "e", "r", "b", "s">>>>,
      <<<<"E", "C", "C">>, <<"E", "c", "c", "l", "e", "s", "i", "a", "s", "t", "e", "s">>>>,
      <<<<"S", "N", "G">>, <<"S", "o", "n", "g", " ", "o", "f", " ", "S", "o", "l", "o", "m", "o", "n">>>>,
      <<<<"I", "S", "A">>, <<"I", "s", "a", "i", "a", "h">>>>,
      <<<<"J", "E", "R">>, <<"J", "e", "r", "e", "m", "i", "a", "h">>>>,
      <<<<"L", "A", "M">>, <<"L", "a", "m", "e", "n", "t", "a", "t", "i", "o", "n", "s">>>>,
      <<<<"E", "Z", "K">>, <<"E", "z", "e", "k", "i", "e", "l">>>>,
      <<<<"D", "A", "N">>, <<"D", "a", "n", "i", "e", "l">>>>,
      <<<<"H", "O", "S">>, <<"H", "o", "s", "e", "a">>>>,
      <<<<"J", "O", "L">>, <<"J", "o", "e", "l">>>>,
      <<<<"A", "M", "O">>, <<"A", "m", "o", "s">>>>,
      <<<<"O", "B", "A">>, <<"O", "b", "a", "d", "i", "a", "h">>>>,
      <<<<"J", "O", "N">>, <<"J", "o", "n", "a", "h">>>>,
      <<<<"M", "I", "C">>, <<"M", "i", "c", "a", "h">>>>,
      <<<<"N", "A", "M">>, <<"N", "a", "h", "u", "m">>>>,
      <<<<"H", "A", "B">>, <<"H", "a", "b", "a", "k", "k", "u", "k">>>>,
      <<<<"Z", "E", "P">>, <<"Z", "e", "p", "h", "a", "n", "i", "a", "h">>>>,
      <<<<"H", "A", "G">>, <<"H", "a", "g", "g", "a", "i">>>>,
      <<<<"Z", "E", "C">>, <<"Z", "e", "c", "h", "a", "r", "i", "a", "h">>>>,
      <<<<"M", "A", "L">>, <<"M", "a", "l", "a", "c", "h", "i">>>>,
      <<<<"M", "A", "T">>, <<"M", "a", "t", "t", "h", "e", "w">>>>,
      <<<<"M", "R", "K">>, <<"M", "a", "r", "k">>>>,
      <<<<"L", "U", "K">>, <<"L", "u", "k", "e">>>>,
      <<<<"J", "H", "N">>, <<"J", "o", "h", "n">>>>,
      <<<<"A", "C", "T">>, <<"A", "c", "t", "s">>>>,
      <<<<"R", "O", "M">>, <<"R", "o", "m", "a", "n", "s">>>>,
      <<<<"1", "C", "O">>, <<"1", " ", "C", "o", "r", "i", "n", "t", "h", "i", "a", "n", "s">>>>,
      <<<<"2", "C", "O">>, <<"2", " ", "C", "o", "r", "i", "n", "t", "h", "i", "a", "n", "s">>>>,
      <<<<"G", "A", "L">>, <<"G", "a", "l", "a", "t", "i", "a", "n", "s">>>>,
      <<<<"E", "P", "H">>, <<"E", "p", "h", "e", "s", "i", "a", "n", "s">>>>,
      <<<<"P", "H", "P">>, <<"P", "h", "i", "l", "i", "p", "p", "i", "a", "n", "s">>>>,
      <<<<"C", "O", "L">>, <<"C", "o", "l", "o", "s", "s", "i", "a", "n", "s">>>>,
      <<<<"1", "T", "H">>, <<"1", " ", "T", "h", "e", "s", "s", "a", "l", "o", "n", "i", "a", "n", "s">>>>,
      <<<<"2", "T", "H">>, <<"2", " ", "T", "h", "e", "s", "s", "a", "l", "o", "n", "i", "a", "n", "s">>>>,
      <<<<"1", "T", "I">>, <<"1", " ", "T", "i", "m", "o", "t", "h", "y">>>>,
      <<<<"2", "T", "I">>, <<"2", " ", "T", "i", "m", "o", "t", "h", "y">>>>,
      <<<<"T", "I", "T">>, <<"T", "i", "t", "u", "s">>>>,
      <<<<"P", "H", "M">>, <<"P", "h", "i", "l", "e", "m", "o", "n">>>>,
      <<<<"H", "E", "B">>, <<"H", "e", "b", "r", "e", "w", "s">>>>,
      <<<<"J", "A", "S">>, <<"J", "a", "m", "e", "s">>>>,
      <<<<"1", "P", "E">>, <<"1", " ", "P", "e", "t", "e", "r">>>>,
      <<<<"2", "P", "E">>, <<"2", " ", "P", "e", "t", "e", "r">>>>,
      <<<<"1", "J", "N">>, <<"1", " ", "J", "o", "h", "n">>>>,
      <<<<"2", "J", "N">>, <<"2", " ", "J", "o", "h", "n">>>>,
      <<<<"3", "J", "N">>, <<"3", " ", "J", "o", "h", "n">>>>,
      <<<<"J", "U", "D">>, <<"J", "u", "d", "e">>>>,
      <<<<"R", "E", "V">>, <<"R", "e", "v", "e", "l", "a", "t", "i", "o", "n">>>>
    >>

\* USFM_TO_BOOK.get(book_code)
book_of(book_code) ==
    IF \E i \in 1..Len(USFM_TO_BOOK) : USFM_TO_BOOK[i][1] = book_code
    THEN Some(USFM_TO_BOOK[CHOOSE i \in 1..Len(USFM_TO_BOOK) :
                               USFM_TO_BOOK[i][1] = book_code][2])
    ELSE None

digits == <<"0", "1", "2", "3", "4", "5", "6", "7", "8", "9">>

\* the value of a string of digits and underscores, read as int reads it
RECURSIVE digits_value(_, _)
digits_value(s, acc) ==
    IF s = <<>> THEN acc
    ELSE IF s[1] = "_" THEN digits_value(Tail(s), acc)
    ELSE digits_value(Tail(s), 10 * acc + (index_in(s[1], digits) - 1))

\* int(s): None stands for ValueError. Surrounding whitespace, one sign and
\* single underscores between digits are accepted
int(s) ==
    LET t == strip(s)
        signed == t # <<>> /\ t[1] \in {"+", "-"}
        body == IF signed THEN Tail(t) ELSE t
        wellformed ==
            /\ body # <<>>
            /\ \A i \in 1..Len(body) : isdigit(body[i]) \/ body[i] = "_"
            /\ isdigit(body[1])
            /\ isdigit(body[Len(body)])
            /\ \A i \in 1..(Len(body) - 1) : ~(body[i] = "_" /\ body[i + 1] = "_")
    IN  IF ~wellformed THEN None
        ELSE IF signed /\ t[1] = "-" THEN Some(0 - digits_value(body, 0))
        ELSE Some(digits_value(body, 0))

\* f"{n}" for an int n
RECURSIVE format_int(_)
format_int(n) ==
    IF n < 0 THEN <<"-">> \o format_int(0 - n)
    ELSE IF n < 10 THEN <<digits[n + 1]>>
    ELSE format_int(n \div 10) \o <<digits[(n % 10) + 1]>>

\* parse(p) inside _normalize_api_bible_id: None, a tuple, or ValueError
parse(p) ==
    LET segs == split(p, ".")
    IN  IF Len(segs) # 3 THEN [kind |-> "none"]
        ELSE LET book == book_of(upper(strip(segs[1])))
                 ch == int(segs[2])
                 vs == int(segs[3])
             IN  IF book = None THEN [kind |-> "none"]
                 ELSE IF ch = None \/ vs = None THEN [kind |-> "raises"]
                 ELSE [kind |-> "tuple", book |-> book[1], ch |-> ch[1], vs |-> vs[1]]

\* f"{book} {ch}:{vs}"
format_verse(t) == t.book \o <<" ">> \o format_int(t.ch) \o <<":">> \o format_int(t.vs)

\* _normalize_api_bible_id: an exception raised in the try body ends in the
\* except clause, which returns None
_normalize_api_bible_id(id_str) ==
    IF id_str = <<>> THEN None
    ELSE LET parts == split(id_str, "-")
             left == parse(parts[1])
             right == parse(parts[2])
         IN  IF left.kind # "tuple" THEN None
             ELSE IF Len(parts) = 1 THEN Some(format_verse(left))
             ELSE IF right.kind # "tuple" THEN None
             ELSE IF left.book = right.book /\ left.ch = right.ch
                  THEN Some(format_verse(left) \o <<"-">> \o format_int(right.vs))
             ELSE Some(format_verse(left) \o <<"-">> \o format_verse(right))

\* one side of an identifier, with the book, chapter and verse it names
\* (book <<>> when it names none)
Side(t, b, c, v) == [text |-> t, book |-> b, chapter |-> c, verse |-> v]

\* the sides explored: well-formed ones, and one for each kind of fault
SidePool ==
    { Side(<<"J", "H", "N", ".", "3", ".", "1", "6">>, <<"J", "o", "h", "n">>, <<"3">>, <<"1", "6">>),
      Side(<<"J", "H", "N", ".", "3", ".", "1", "8">>, <<"J", "o", "h", "n">>, <<"3">>, <<"1", "8">>),
      Side(<<"j", "h", "n", ".", "0", "4", ".", "2">>, <<"J", "o", "h", "n">>, <<"4">>, <<"2">>),
      Side(<<"1", "T", "I", ".", "6", ".", "1", "0">>, <<"1", " ", "T", "i", "m", "o", "t", "h", "y">>, <<"6">>, <<"1", "0">>),
      Side(<<"X", "Y", "Z", ".", "1", ".", "1">>, <<>>, <<>>, <<>>),
      Side(<<"J", "H", "N", ".", "3">>, <<>>, <<>>, <<>>),
      Side(<<"J", "H", "N", ".", "x", ".", "1">>, <<>>, <<>>, <<>>),
      Side(<<"J", "H", "N", ".", "3", ".", "1", ".", "1">>, <<>>, <<>>, <<>>),
      Side(<<>>, <<>>, <<>>, <<>>) }

\* --------------------------------------------------------- settings.py

DefaultContextVerses == 7
DefaultSnippetChars == 180
DefaultMaxResults == 5

\* Settings with the defaults of settings.py
default_settings ==
    [BIBLE_API_KEY               |-> None,
     DEFAULT_TRANSLATION         |-> <<"k", "j", "v">>,
     DEFAULT_CONTEXT_VERSES      |-> DefaultContextVerses,
     DEFAULT_SNIPPET_CHARS       |-> DefaultSnippetChars,
     DEFAULT_INCLUDE_SNIPPETS    |-> TRUE,
     DEFAULT_MAX_RESULTS         |-> DefaultMaxResults,
     DEFAULT_INCLUDE_SUPPORTING  |-> TRUE,
     DEFAULT_INCLUDE_CHALLENGERS |-> TRUE]

\* the environments explored: every result cap with and without a search
\* credential, and one environment each with a default switched off
SettingsPool ==
    { [default_settings EXCEPT !.BIBLE_API_KEY = k, !.DEFAULT_MAX_RESULTS = m] :
        k \in {None, Some(<<"k">>)}, m \in (0 - 1)..MaxResults }
    \cup
    { [default_settings EXCEPT !.DEFAULT_MAX_RESULTS = 1, !.DEFAULT_SNIPPET_CHARS = 0],
      [default_settings EXCEPT !.DEFAULT_MAX_RESULTS = 1,
                               !.DEFAULT_INCLUDE_SNIPPETS = FALSE],
      [default_settings EXCEPT !.DEFAULT_MAX_RESULTS = 1,
                               !.DEFAULT_INCLUDE_SUPPORTING = FALSE,
                               !.DEFAULT_INCLUDE_CHALLENGERS = FALSE] }

OptionalBool == {None, Some(TRUE), Some(FALSE)}

\* AnalyzeClaimArgs: every claim with every choice of what to include, one
\* claim with every choice of translation, context and snippet options, and
\* one call for challengers alone with a snippet length of its own
AnalyzeClaimArgsPool ==
    [claim : ClaimPool, translation : {None}, context_verses : {None},
     snippet_chars : {None}, include_snippets : {None},
     include_supporting : OptionalBool, include_challengers : OptionalBool]
    \cup
    [claim : {<<"p", "e", "a", "c", "e">>}, translation : TranslationPool,
     context_verses : {None, Some(0)}, snippet_chars : {None, Some(3)},
     include_snippets : OptionalBool,
     include_supporting : {None}, include_challengers : {Some(FALSE)}]
    \cup
    [claim : {<<"p", "e", "a", "c", "e">>}, translation : {None},
     context_verses : {None}, snippet_chars : {Some(3)}, include_snippets : {None},
     include_supporting : {Some(FALSE)}, include_challengers : {Some(TRUE)}]

\* GetReferenceArgs
GetReferenceArgsPool ==
    [reference : ReferencePool, translation : TranslationPool,
     context_verses : {None, Some(0)}]

\* what ctx.sample does: <<>> when it raises, else <<response.text>>
SamplePool == {<<>>} \cup {<<t>> : t \in SampleTextPool}

\* ------------------------------------------------------------- the state

VARIABLES
    settings,              \* the process-wide Settings
    pc,                    \* where the running handler is suspended
    tool,                  \* the handler that runs or ran last
    claim, translation, context_n, snippet_limit, include_snippets,
    include_supporting, include_challengers,
    candidate_refs, passages, challengers, challenging_passages,
    ref,                   \* get_reference's trimmed reference
    idx,                   \* position of the fetch loop in its list
    attempt,               \* which GET of the running fetch is awaited
    fetch,                 \* the running or last fetch and its HTTP requests
    trace,                 \* the resolution sources used, in order
    resolved,              \* candidate_refs as the sources left it, before
                           \* "Deduplicate and cap"
    result,                \* what the handler returned
    text, limit, snippet, snippet_pc,  \* make_snippet's arguments and value
    snippet_again,         \* make_snippet's value for its own value
    sides, id_str,         \* _normalize_api_bible_id's argument, and the sides
                           \* it was put together from
    normalized,            \* _normalize_api_bible_id's value
    normalize_pc,
    parked,                \* the frame of the other invocation, suspended at
                           \* an await, and its log
    log                    \* the call of the running invocation and the answers
                           \* its collaborators have given it, in order

locals == <<claim, translation, context_n, snippet_limit, include_snippets,
            include_supporting, include_challengers>>
snippet_vars == <<text, limit, snippet, snippet_pc, snippet_again>>
normalize_vars == <<sides, id_str, normalized, normalize_pc>>
pure_vars == <<snippet_vars, normalize_vars>>
handler_vars == <<pc, tool, locals, candidate_refs, passages, challengers,
                  challenging_passages, ref, idx, attempt, fetch, trace, resolved,
                  result>>
conc_vars == <<parked, log>>
vars == <<settings, handler_vars, pure_vars, conc_vars>>

no_fetch == [reference |-> <<>>, requests |-> <<>>, outcome |-> "none"]

FetchPcs == {"fetch_supporting", "fetch_challengers", "fetch_reference"}

\* make_snippet has not been called
SnippetUnused ==
    /\ text = <<>>
    /\ limit = 0
    /\ snippet = <<>>
    /\ snippet_pc = "unused"
    /\ snippet_again = <<>>

\* _normalize_api_bible_id has not been called
NormalizeUnused ==
    /\ sides = <<>>
    /\ id_str = <<>>
    /\ normalized = None
    /\ normalize_pc = "unused"

\* the frame of an invocation: the arguments and local variables of
\* analyze_claim or get_reference, and where it stands
frame ==
    [pc |-> pc, tool |-> tool, claim |-> claim, translation |-> translation,
     context_n |-> context_n, snippet_limit |-> snippet_limit,
     include_snippets |-> include_snippets,
     include_supporting |-> include_supporting,
     include_challengers |-> include_challengers,
     candidate_refs |-> candidate_refs, passages |-> passages,
     challengers |-> challengers, challenging_passages |-> challenging_passages,
     ref |-> ref, idx |-> idx, attempt |-> attempt, fetch |-> fetch,
     trace |-> trace, resolved |-> resolved, result |-> result]

\* the frame of an invocation that has not been called
idle_frame ==
    [pc |-> "idle", tool |-> "none", claim |-> <<>>, translation |-> <<>>,
     context_n |-> 0, snippet_limit |-> None, include_snippets |-> FALSE,
     include_supporting |-> FALSE, include_challengers |-> FALSE,
     candidate_refs |-> <<>>, passages |-> <<>>, challengers |-> <<>>,
     challenging_passages |-> <<>>, ref |-> <<>>, idx |-> 0, attempt |-> 0,
     fetch |-> no_fetch, trace |-> <<>>, resolved |-> <<>>, result |-> <<>>]

\* there is one invocation at most: no other is suspended, nothing is logged
NoOtherInvocation ==
    /\ parked = [frame |-> idle_frame, log |-> <<>>]
    /\ log = <<>>

\* no handler has been called
HandlerIdle ==
    /\ pc = "idle"
    /\ tool = "none"
    /\ claim = <<>>
    /\ translation = <<>>
    /\ context_n = 0
    /\ snippet_limit = None
    /\ include_snippets = FALSE
    /\ include_supporting = FALSE
    /\ include_challengers = FALSE
    /\ candidate_refs = <<>>
    /\ passages = <<>>
    /\ challengers = <<>>
    /\ challenging_passages = <<>>
    /\ ref = <<>>
    /\ idx = 0
    /\ attempt = 0
    /\ fetch = no_fetch
    /\ trace = <<>>
    /\ resolved = <<>>
    /\ result = <<>>

Init ==
    /\ settings \in SettingsPool
    /\ HandlerIdle
    /\ SnippetUnused
    /\ NormalizeUnused
    /\ NoOtherInvocation

\* ------------------------------------------------- analyze_claim, its end

\* the return statement of analyze_claim
Return(ps, chs, cps) ==
    /\ pc' = "returned"
    /\ idx' = 0
    /\ attempt' = 0
    /\ passages' = ps
    /\ challengers' = chs
    /\ challenging_passages' = cps
    /\ result' = [claim          |-> claim,
                  translation    |-> translation,
                  context_verses |-> context_n,
                  candidates     |-> ps,
                  challengers    |-> cps]

\* Step 4 up to its first fetch, once the challengers are known
AfterPropose(chs) ==
    IF include_challengers /\ chs # <<>>
    THEN /\ pc' = "fetch_challengers"
         /\ idx' = 1
         /\ attempt' = 1
         /\ challengers' = chs
         /\ challenging_passages' = <<>>
         /\ UNCHANGED <<passages, result>>
    ELSE Return(passages, chs, <<>>)

\* AfterSupporting with the fault that include_challengers is not consulted
AfterSupporting_whatever_the_flag(ps) ==
    /\ pc' = "propose"
    /\ idx' = 0
    /\ attempt' = 0
    /\ passages' = ps
    /\ UNCHANGED <<challengers, challenging_passages, result>>

\* Step 3 up to the sampling call, once the supporting passages are known
AfterSupporting(ps) ==
    IF include_challengers
    THEN /\ pc' = "propose"
         /\ idx' = 0
         /\ attempt' = 0
         /\ passages' = ps
         /\ UNCHANGED <<challengers, challenging_passages, result>>
    ELSE Return(ps, <<>>, <<>>)

\* AfterCandidates with the fault that include_supporting is not consulted
AfterCandidates_whatever_the_flag(refs) ==
    IF refs # <<>>
    THEN /\ pc' = "fetch_supporting"
         /\ idx' = 1
         /\ attempt' = 1
         /\ UNCHANGED <<passages, challengers, challenging_passages, result>>
    ELSE AfterSupporting(<<>>)

\* Step 2 up to its first fetch, once the candidate references are known
AfterCandidates(refs) ==
    IF include_supporting /\ refs # <<>>
    THEN /\ pc' = "fetch_supporting"
         /\ idx' = 1
         /\ attempt' = 1
         /\ UNCHANGED <<passages, challengers, challenging_passages, result>>
    ELSE AfterSupporting(<<>>)

\* ------------------------------------------------------- analyze_claim

AnalyzeClaim(args) ==
    /\ pc = "idle"
    /\ tool' = "analyze_claim"
    /\ claim' = strip(args.claim)
    /\ candidate_refs' = <<>>
    /\ passages' = <<>>
    /\ challengers' = <<>>
    /\ challenging_passages' = <<>>
    /\ ref' = <<>>
    /\ idx' = 0
    /\ attempt' = 0
    /\ fetch' = no_fetch
    /\ trace' = <<>>
    /\ resolved' = <<>>
    /\ IF claim' = <<>>
       THEN /\ pc' = "returned"
            /\ result' = [error |-> S_empty_claim]
            /\ translation' = <<>>
            /\ context_n' = 0
            /\ snippet_limit' = None
            /\ include_snippets' = FALSE
            /\ include_supporting' = FALSE
            /\ include_challengers' = FALSE
       ELSE /\ translation' =
                lower(or_default(args.translation, settings.DEFAULT_TRANSLATION))
            /\ context_n' =
                IF args.context_verses # None THEN args.context_verses[1]
                ELSE settings.DEFAULT_CONTEXT_VERSES
            /\ snippet_limit' =
                LET explicit == IF args.snippet_chars = None THEN None
                                ELSE Some(max(1, args.snippet_chars[1]))
                IN  IF explicit = None /\ settings.DEFAULT_SNIPPET_CHARS # 0
                    THEN Some(max(1, settings.DEFAULT_SNIPPET_CHARS))
                    ELSE explicit
            /\ include_snippets' =
                IF args.include_snippets = None THEN settings.DEFAULT_INCLUDE_SNIPPETS
                ELSE args.include_snippets[1]
            /\ include_supporting' =
                IF args.include_supporting = None
                THEN settings.DEFAULT_INCLUDE_SUPPORTING
                ELSE args.include_supporting[1]
            /\ include_challengers' =
                IF args.include_challengers = None
                THEN settings.DEFAULT_INCLUDE_CHALLENGERS
                ELSE args.include_challengers[1]
            /\ pc' = IF truthy(settings.BIBLE_API_KEY) THEN "search" ELSE "extract"
            /\ result' = <<>>
    /\ UNCHANGED <<settings, pure_vars>>

\* search_candidates_api_bible returns refs
SearchReturns(refs) ==
    /\ pc = "search"
    /\ trace' = Append(trace, [call |-> "search", outcome |-> "returned"])
    /\ resolved' = refs
    /\ candidate_refs' = deduplicate_and_cap(resolved', settings.DEFAULT_MAX_RESULTS)
    /\ AfterCandidates(candidate_refs')
    /\ UNCHANGED <<settings, tool, locals, ref, fetch, pure_vars>>

\* search_candidates_api_bible raises: the handler warns and goes on to the
\* sampling extraction
SearchRaises ==
    /\ pc = "search"
    /\ trace' = Append(trace, [call |-> "search", outcome |-> "raised"])
    /\ pc' = "extract"
    /\ UNCHANGED <<settings, tool, locals, candidate_refs, passages, challengers,
                   challenging_passages, ref, idx, attempt, fetch, resolved,
                   result, pure_vars>>

\* extract_references_via_llm returns, then the heuristic table if it
\* returned nothing, then "Deduplicate and cap"
ExtractReturns(sample) ==
    /\ pc = "extract"
    /\ LET sampled == parse_references(sample)
           entry   == [call    |-> "sample",
                       outcome |-> IF sample = <<>> THEN "failed"
                                   ELSE IF sampled = <<>> THEN "empty" ELSE "refs"]
       IN  IF fallback_needed(sampled)
           THEN /\ trace' = trace \o <<entry, [call |-> "heuristic", outcome |-> "refs"]>>
                /\ resolved' =
                     _fallback_candidate_refs(claim, settings.DEFAULT_MAX_RESULTS)
           ELSE /\ trace' = Append(trace, entry)
                /\ resolved' = sampled
    /\ candidate_refs' = deduplicate_and_cap(resolved', settings.DEFAULT_MAX_RESULTS)
    /\ AfterCandidates(candidate_refs')
    /\ UNCHANGED <<settings, tool, locals, ref, fetch, pure_vars>>

\* propose_challengers returns, then the challenger table if it returned
\* nothing
ProposeReturns(sample) ==
    /\ pc = "propose"
    /\ LET proposed == parse_references(sample)
           entry    == [call    |-> "propose",
                        outcome |-> IF sample = <<>> THEN "failed"
                                    ELSE IF proposed = <<>> THEN "empty" ELSE "refs"]
       IN  IF proposed = <<>>
           THEN /\ trace' = trace \o <<entry, [call    |-> "challenger_heuristic",
                                                outcome |-> "refs"]>>
                /\ AfterPropose(_fallback_challenger_refs(claim,
                                                          settings.DEFAULT_MAX_RESULTS))
           ELSE /\ trace' = Append(trace, entry)
                /\ AfterPropose(proposed)
    /\ UNCHANGED <<settings, tool, locals, candidate_refs, ref, fetch, resolved,
                   pure_vars>>

\* ------------------------------------------------------- get_reference

GetReference(args) ==
    /\ pc = "idle"
    /\ tool' = "get_reference"
    /\ ref' = strip(args.reference)
    /\ claim' = <<>>
    /\ snippet_limit' = None
    /\ include_snippets' = FALSE
    /\ include_supporting' = FALSE
    /\ include_challengers' = FALSE
    /\ candidate_refs' = <<>>
    /\ passages' = <<>>
    /\ challengers' = <<>>
    /\ challenging_passages' = <<>>
    /\ idx' = 0
    /\ fetch' = no_fetch
    /\ trace' = <<>>
    /\ resolved' = <<>>
    /\ IF ref' = <<>>
       THEN /\ pc' = "returned"
            /\ result' = [error |-> S_empty_reference]
            /\ translation' = <<>>
            /\ context_n' = 0
            /\ attempt' = 0
       ELSE /\ translation' =
                lower(or_default(args.translation, settings.DEFAULT_TRANSLATION))
            /\ context_n' =
                IF args.context_verses # None THEN args.context_verses[1]
                ELSE settings.DEFAULT_CONTEXT_VERSES
            /\ pc' = "fetch_reference"
            /\ attempt' = 1
            /\ result' = <<>>
    /\ UNCHANGED <<settings, pure_vars>>

\* ------------------------------------------ fetch_passage_with_context

\* the reference the running fetch was called with
fetch_reference ==
    CASE pc = "fetch_supporting"  -> candidate_refs[idx]
      [] pc = "fetch_challengers" -> challengers[idx]
      [] pc = "fetch_reference"   -> ref

\* FetchCompleted with the fault that a failed fetch ends the loop it is in
FetchCompleted_stops_at_failure(out) ==
    CASE pc = "fetch_reference" ->
           /\ idx' = 0
           /\ attempt' = 0
           /\ UNCHANGED <<passages, challengers, challenging_passages>>
           /\ IF out.kind = "raised"
              THEN /\ pc' = "raised"
                   /\ result' = result
              ELSE /\ pc' = "returned"
                   /\ result' = IF out.kind = "absent"
                                THEN [error |-> S_reference_not_found \o ref]
                                ELSE out.passage
      [] pc = "fetch_supporting" ->
           LET ps == IF out.kind = "passage"
                     THEN Append(passages, with_snippet(out.passage, include_snippets,
                                                        snippet_limit))
                     ELSE passages
           IN  IF idx < Len(candidate_refs) /\ out.kind = "passage"
               THEN /\ idx' = idx + 1
                    /\ attempt' = 1
                    /\ passages' = ps
                    /\ UNCHANGED <<pc, challengers, challenging_passages, result>>
               ELSE AfterSupporting(ps)
      [] pc = "fetch_challengers" ->
           LET cps == IF out.kind = "passage"
                      THEN Append(challenging_passages,
                                  with_snippet(out.passage, include_snippets,
                                               snippet_limit))
                      ELSE challenging_passages
           IN  IF idx < Len(challengers) /\ out.kind = "passage"
               THEN /\ idx' = idx + 1
                    /\ attempt' = 1
                    /\ challenging_passages' = cps
                    /\ UNCHANGED <<pc, passages, challengers, result>>
               ELSE Return(passages, challengers, cps)

\* the caller's code after `await fetch_passage_with_context(...)`, up to its
\* next await or its return
FetchCompleted(out) ==
    CASE pc = "fetch_reference" ->
           /\ idx' = 0
           /\ attempt' = 0
           /\ UNCHANGED <<passages, challengers, challenging_passages>>
           /\ IF out.kind = "raised"
              THEN /\ pc' = "raised"
                   /\ result' = result
              ELSE /\ pc' = "returned"
                   /\ result' = IF out.kind = "absent"
                                THEN [error |-> S_reference_not_found \o ref]
                                ELSE out.passage
      [] pc = "fetch_supporting" ->
           LET ps == IF out.kind = "passage"
                     THEN Append(passages, with_snippet(out.passage, include_snippets,
                                                        snippet_limit))
                     ELSE passages
           IN  IF idx < Len(candidate_refs)
               THEN /\ idx' = idx + 1
                    /\ attempt' = 1
                    /\ passages' = ps
                    /\ UNCHANGED <<pc, challengers, challenging_passages, result>>
               ELSE AfterSupporting(ps)
      [] pc = "fetch_challengers" ->
           LET cps == IF out.kind = "passage"
                      THEN Append(challenging_passages,
                                  with_snippet(out.passage, include_snippets,
                                               snippet_limit))
                      ELSE challenging_passages
           IN  IF idx < Len(challengers)
               THEN /\ idx' = idx + 1
                    /\ attempt' = 1
                    /\ challenging_passages' = cps
                    /\ UNCHANGED <<pc, passages, challengers, result>>
               ELSE Return(passages, challengers, cps)

\* the first `await client.get(url)` answers with resp
HttpGet(resp) ==
    /\ pc \in FetchPcs
    /\ attempt = 1
    /\ LET reference == fetch_reference
           requests  == <<[url      |-> passage_url(reference, translation),
                           response |-> resp]>>
           Fetch(o)  == [reference |-> reference, requests |-> requests, outcome |-> o]
       IN  IF resp.raises
           THEN /\ fetch' = Fetch("raised")
                /\ FetchCompleted(Raised)
           ELSE IF resp.status_code # 200
           THEN IF ordinal_alt(reference) # None
                THEN /\ fetch' = Fetch("pending")
                     /\ attempt' = 2
                     /\ UNCHANGED <<pc, idx, passages, challengers,
                                    challenging_passages, result>>
                ELSE /\ fetch' = Fetch("absent")
                     /\ FetchCompleted(Absent)
           ELSE LET out == read_passage(resp, reference, translation)
                IN  /\ fetch' = Fetch(out.kind)
                    /\ FetchCompleted(out)
    /\ UNCHANGED <<settings, tool, locals, candidate_refs, ref, trace, resolved,
                   pure_vars>>

\* the second `await client.get(alt_url)` answers with resp
HttpGetAlt(resp) ==
    /\ pc \in FetchPcs
    /\ attempt = 2
    /\ LET reference == fetch_reference
           alt       == ordinal_alt(reference)[1]
           requests  == Append(fetch.requests,
                               [url      |-> passage_url(alt, translation),
                                response |-> resp])
           Fetch(o)  == [reference |-> reference, requests |-> requests, outcome |-> o]
       IN  IF resp.raises
           THEN /\ fetch' = Fetch("raised")
                /\ FetchCompleted(Raised)
           ELSE IF resp.status_code # 200
           THEN /\ fetch' = Fetch("absent")
                /\ FetchCompleted(Absent)
           ELSE LET out == read_passage(resp, reference, translation)
                IN  /\ fetch' = Fetch(out.kind)
                    /\ FetchCompleted(out)
    /\ UNCHANGED <<settings, tool, locals, candidate_refs, ref, trace, resolved,
                   pure_vars>>

\* the tool framework has delivered the handler's result or exception to the
\* client; the handler's frame is gone and the next call can start
Respond ==
    /\ pc \in {"returned", "raised"}
    /\ pc' = "idle"
    /\ tool' = "none"
    /\ claim' = <<>>
    /\ translation' = <<>>
    /\ context_n' = 0
    /\ snippet_limit' = None
    /\ include_snippets' = FALSE
    /\ include_supporting' = FALSE
    /\ include_challengers' = FALSE
    /\ candidate_refs' = <<>>
    /\ passages' = <<>>
    /\ challengers' = <<>>
    /\ challenging_passages' = <<>>
    /\ ref' = <<>>
    /\ idx' = 0
    /\ attempt' = 0
    /\ fetch' = no_fetch
    /\ trace' = <<>>
    /\ resolved' = <<>>
    /\ result' = <<>>
    /\ UNCHANGED <<settings, pure_vars>>

\* one invocation at a time: every step is a step of the only invocation
Next ==
    \/ \E args \in AnalyzeClaimArgsPool : AnalyzeClaim(args) /\ UNCHANGED conc_vars
    \/ \E refs \in SeqsUpTo(SearchRefPool, MaxRefs) :
          SearchReturns(refs) /\ UNCHANGED conc_vars
    \/ SearchRaises /\ UNCHANGED conc_vars
    \/ \E sample \in SamplePool : ExtractReturns(sample) /\ UNCHANGED conc_vars
    \/ \E sample \in SamplePool : ProposeReturns(sample) /\ UNCHANGED conc_vars
    \/ \E args \in GetReferenceArgsPool : GetReference(args) /\ UNCHANGED conc_vars
    \/ \E resp \in Responses : HttpGet(resp) /\ UNCHANGED conc_vars
    \/ \E resp \in Responses : HttpGetAlt(resp) /\ UNCHANGED conc_vars
    \/ Respond /\ UNCHANGED conc_vars

Spec == Init /\ [][Next]_vars

\* ---------------------------------------------------- make_snippet alone

SnippetTexts == SeqsUpTo({"a", " ", "..."}, MaxLen)

SnippetInit ==
    /\ settings = default_settings
    /\ HandlerIdle
    /\ text \in SnippetTexts
    /\ limit \in (0 - 1)..MaxLimit
    /\ snippet = <<>>
    /\ snippet_pc = "call"
    /\ snippet_again = <<>>
    /\ NormalizeUnused
    /\ NoOtherInvocation

\* snippet = make_snippet(text, limit)
MakeSnippet ==
    /\ snippet_pc = "call"
    /\ snippet' = make_snippet(text, limit)
    /\ snippet_pc' = "returned"
    /\ UNCHANGED <<settings, handler_vars, normalize_vars, conc_vars, text, limit,
                   snippet_again>>

\* snippet_again = make_snippet(snippet, limit)
MakeSnippetAgain ==
    /\ snippet_pc = "returned"
    /\ snippet_again' = make_snippet(snippet, limit)
    /\ snippet_pc' = "returned_again"
    /\ UNCHANGED <<settings, handler_vars, normalize_vars, conc_vars, text, limit,
                   snippet>>

SnippetNext == MakeSnippet \/ MakeSnippetAgain

SnippetSpec == SnippetInit /\ [][SnippetNext]_vars

\* ------------------------------------------ _normalize_api_bible_id alone

\* "-".join of the texts of the sides
id_of(ss) == join(<<"-">>, [i \in 1..Len(ss) |-> ss[i].text])

NormalizeInit ==
    /\ settings = default_settings
    /\ HandlerIdle
    /\ SnippetUnused
    /\ sides \in SeqsUpTo(SidePool, MaxSides)
    /\ id_str = id_of(sides)
    /\ normalized = None
    /\ normalize_pc = "call"
    /\ NoOtherInvocation

\* normalized = _normalize_api_bible_id(id_str)
Normalize ==
    /\ normalize_pc = "call"
    /\ normalized' = _normalize_api_bible_id(id_str)
    /\ normalize_pc' = "returned"
    /\ UNCHANGED <<settings, handler_vars, snippet_vars, conc_vars, sides, id_str>>

NormalizeNext == Normalize

NormalizeSpec == NormalizeInit /\ [][NormalizeNext]_vars

\* ------------------------------------------- two interleaved invocations

\* the environments, calls and answers explored with two invocations
ConcSettingsPool ==
    { [default_settings EXCEPT !.BIBLE_API_KEY = k, !.DEFAULT_MAX_RESULTS = 1] :
        k \in {None, Some(<<"k">>)} }

ConcAnalyzeClaimArgsPool ==
    [claim : {<<"p", "e", "a", "c", "e">>}, translation : {None},
     context_verses : {None}, snippet_chars : {Some(3)}, include_snippets : {None},
     include_supporting : {None}, include_challengers : {None}]

ConcGetReferenceArgsPool ==
    [reference : {<<"1", " ", "T", "i", "m", " ", "6">>}, translation : {None},
     context_verses : {None}]

ConcSearchPool == { <<<<"J", "n", " ", "3">>>> }

ConcSamplePool == { <<>>, <<Some(<<"P", "s", " ", "1">>)>> }

ConcResponses == { resp \in Responses : ~resp.raises => ~resp.json_raises }

\* the entries of log
Called(name, args) ==
    [kind |-> "call", tool |-> name, args |-> args, settings |-> settings]
SearchAnswer(raises, refs) == [kind |-> "search", raises |-> raises, refs |-> refs]
SampleAnswer(sample) == [kind |-> "sample", sample |-> sample]
GetAnswer(resp) == [kind |-> "get", resp |-> resp]

\* InvocationLocals with the fault that the passages list is a module-level
\* variable
InvocationLocals_but_passages ==
    {"pc", "tool", "claim", "translation", "context_n", "snippet_limit",
     "include_snippets", "include_supporting", "include_challengers",
     "candidate_refs", "challengers", "challenging_passages", "ref",
     "idx", "attempt", "fetch", "trace", "resolved", "result"}

\* the variables that live in the frame of an invocation
InvocationLocals ==
    {"pc", "tool", "claim", "translation", "context_n", "snippet_limit",
     "include_snippets", "include_supporting", "include_challengers",
     "candidate_refs", "passages", "challengers", "challenging_passages", "ref",
     "idx", "attempt", "fetch", "trace", "resolved", "result"}

\* what an invocation finds in a variable when it is resumed: the value it
\* left there when the variable is its own, else the value of the moment
resumed(name, saved, current) ==
    IF name \in InvocationLocals THEN saved ELSE current

ConcInit ==
    /\ settings \in ConcSettingsPool
    /\ HandlerIdle
    /\ SnippetUnused
    /\ NormalizeUnused
    /\ NoOtherInvocation

\* the running invocation is suspended at its await (or has not been called,
\* or is done), and the event loop resumes the other one
Switch ==
    /\ parked' = [frame |-> frame, log |-> log]
    /\ log' = parked.log
    /\ pc' = resumed("pc", parked.frame.pc, pc)
    /\ tool' = resumed("tool", parked.frame.tool, tool)
    /\ claim' = resumed("claim", parked.frame.claim, claim)
    /\ translation' = resumed("translation", parked.frame.translation, translation)
    /\ context_n' = resumed("context_n", parked.frame.context_n, context_n)
    /\ snippet_limit' =
          resumed("snippet_limit", parked.frame.snippet_limit, snippet_limit)
    /\ include_snippets' =
          resumed("include_snippets", parked.frame.include_snippets, include_snippets)
    /\ include_supporting' =
          resumed("include_supporting", parked.frame.include_supporting,
                  include_supporting)
    /\ include_challengers' =
          resumed("include_challengers", parked.frame.include_challengers,
                  include_challengers)
    /\ candidate_refs' =
          resumed("candidate_refs", parked.frame.candidate_refs, candidate_refs)
    /\ passages' = resumed("passages", parked.frame.passages, passages)
    /\ challengers' = resumed("challengers", parked.frame.challengers, challengers)
    /\ challenging_passages' =
          resumed("challenging_passages", parked.frame.challenging_passages,
                  challenging_passages)
    /\ ref' = resumed("ref", parked.frame.ref, ref)
    /\ idx' = resumed("idx", parked.frame.idx, idx)
    /\ attempt' = resumed("attempt", parked.frame.attempt, attempt)
    /\ fetch' = resumed("fetch", parked.frame.fetch, fetch)
    /\ trace' = resumed("trace", parked.frame.trace, trace)
    /\ resolved' = resumed("resolved", parked.frame.resolved, resolved)
    /\ result' = resumed("result", parked.frame.result, result)
    /\ UNCHANGED <<settings, pure_vars>>

\* the running invocation takes a step and logs the answer it was given
Logged(entry) == log' = Append(log, entry) /\ UNCHANGED parked

ConcNext ==
    \/ \E args \in ConcAnalyzeClaimArgsPool :
          /\ AnalyzeClaim(args)
          /\ log' = <<Called("analyze_claim", args)>>
          /\ UNCHANGED parked
    \/ \E args \in ConcGetReferenceArgsPool :
          /\ GetReference(args)
          /\ log' = <<Called("get_reference", args)>>
          /\ UNCHANGED parked
    \/ \E refs \in ConcSearchPool :
          SearchReturns(refs) /\ Logged(SearchAnswer(FALSE, refs))
    \/ SearchRaises /\ Logged(SearchAnswer(TRUE, <<>>))
    \/ \E sample \in ConcSamplePool :
          ExtractReturns(sample) /\ Logged(SampleAnswer(sample))
    \/ \E sample \in ConcSamplePool :
          ProposeReturns(sample) /\ Logged(SampleAnswer(sample))
    \/ \E resp \in ConcResponses : HttpGet(resp) /\ Logged(GetAnswer(resp))
    \/ \E resp \in ConcResponses : HttpGetAlt(resp) /\ Logged(GetAnswer(resp))
    \/ Switch

ConcSpec == ConcInit /\ [][ConcNext]_vars

\* ------------------------------------------- a handler run from its log

\* fetch_passage_with_context, its GETs answered by answers[pos],
\* answers[pos + 1]: what it yields, and the position of the next answer
fetch_from(reference, tr, answers, pos) ==
    LET first == answers[pos].resp
        second == answers[pos + 1].resp
    IN  IF first.raises THEN [out |-> Raised, pos |-> pos + 1]
        ELSE IF first.status_code = 200
        THEN [out |-> read_passage(first, reference, tr), pos |-> pos + 1]
        ELSE IF ordinal_alt(reference) = None THEN [out |-> Absent, pos |-> pos + 1]
        ELSE IF second.raises THEN [out |-> Raised, pos |-> pos + 2]
        ELSE IF second.status_code # 200 THEN [out |-> Absent, pos |-> pos + 2]
        ELSE [out |-> read_passage(second, reference, tr), pos |-> pos + 2]

\* a fetch loop of analyze_claim from refs[i] on: the passages collected,
\* and the position of the next answer
RECURSIVE fetch_loop_from(_, _, _, _, _, _, _, _)
fetch_loop_from(refs, i, tr, inc, chars, answers, pos, got) ==
    IF i > Len(refs) THEN [passages |-> got, pos |-> pos]
    ELSE LET f == fetch_from(refs[i], tr, answers, pos)
         IN  fetch_loop_from(refs, i + 1, tr, inc, chars, answers, f.pos,
                             IF f.out.kind = "passage"
                             THEN Append(got, with_snippet(f.out.passage, inc, chars))
                             ELSE got)

\* analyze_claim(args) run from its first statement to its return, its
\* collaborators giving the answers in order
analyze_claim_from(args, answers) ==
    LET c == strip(args.claim)
        tr == lower(or_default(args.translation, settings.DEFAULT_TRANSLATION))
        n == IF args.context_verses # None THEN args.context_verses[1]
             ELSE settings.DEFAULT_CONTEXT_VERSES
        explicit == IF args.snippet_chars = None THEN None
                    ELSE Some(max(1, args.snippet_chars[1]))
        chars == IF explicit = None /\ settings.DEFAULT_SNIPPET_CHARS # 0
                 THEN Some(max(1, settings.DEFAULT_SNIPPET_CHARS))
                 ELSE explicit
        inc == IF args.include_snippets = None THEN settings.DEFAULT_INCLUDE_SNIPPETS
               ELSE args.include_snippets[1]
        supporting == IF args.include_supporting = None
                      THEN settings.DEFAULT_INCLUDE_SUPPORTING
                      ELSE args.include_supporting[1]
        challenging == IF args.include_challengers = None
                       THEN settings.DEFAULT_INCLUDE_CHALLENGERS
                       ELSE args.include_challengers[1]
        m == settings.DEFAULT_MAX_RESULTS
        searched == truthy(settings.BIBLE_API_KEY)
        found == searched /\ ~answers[1].raises
        sample_at == IF searched THEN 2 ELSE 1
        sampled == parse_references(answers[sample_at].sample)
        refs == IF found THEN answers[1].refs
                ELSE IF fallback_needed(sampled) THEN _fallback_candidate_refs(c, m)
                ELSE sampled
        candidates == deduplicate_and_cap(refs, m)
        fetch_at == IF found THEN 2 ELSE sample_at + 1
        supported == IF supporting
                     THEN fetch_loop_from(candidates, 1, tr, inc, chars, answers,
                                          fetch_at, <<>>)
                     ELSE [passages |-> <<>>, pos |-> fetch_at]
        proposed == parse_references(answers[supported.pos].sample)
        chs == IF ~challenging THEN <<>>
               ELSE IF proposed = <<>> THEN _fallback_challenger_refs(c, m)
               ELSE proposed
        challenged == IF challenging /\ chs # <<>>
                      THEN fetch_loop_from(chs, 1, tr, inc, chars, answers,
                                           supported.pos + 1, <<>>)
                      ELSE [passages |-> <<>>, pos |-> supported.pos]
    IN  IF c = <<>> THEN [pc |-> "returned", result |-> [error |-> S_empty_claim]]
        ELSE [pc     |-> "returned",
              result |-> [claim          |-> c,
                          translation    |-> tr,
                          context_verses |-> n,
                          candidates     |-> supported.passages,
                          challengers    |-> challenged.passages]]

\* get_reference(args) run from its first statement to its return or to the
\* exception that leaves it
get_reference_from(args, answers) ==
    LET r == strip(args.reference)
        tr == lower(or_default(args.translation, settings.DEFAULT_TRANSLATION))
        f == fetch_from(r, tr, answers, 1)
    IN  IF r = <<>> THEN [pc |-> "returned", result |-> [error |-> S_empty_reference]]
        ELSE IF f.out.kind = "raised" THEN [pc |-> "raised", result |-> <<>>]
        ELSE IF f.out.kind = "absent"
        THEN [pc |-> "returned", result |-> [error |-> S_reference_not_found \o r]]
        ELSE [pc |-> "returned", result |-> f.out.passage]

\* how the invocation with this log ends when nothing else runs
run_alone(l) ==
    IF l[1].tool = "analyze_claim" THEN analyze_claim_from(l[1].args, Tail(l))
    ELSE get_reference_from(l[1].args, Tail(l))

\* ============================================================ the claims

\* analyze_claim has run "Deduplicate and cap" for a non-empty claim
CandidatesResolved ==
    /\ tool = "analyze_claim"
    /\ claim # <<>>
    /\ pc \in {"fetch_supporting", "propose", "fetch_challengers", "returned"}

\* the first n elements of s, none when n <= 0
Take(s, n) == SubSeq(s, 1, min(n, Len(s)))

\* equality of two references under case-insensitive comparison
SameIgnoringCase(a, b) == lower(a) = lower(b)

\* the entries of trace that belong to candidate resolution
ResolutionTrace ==
    SelectSeq(trace, LAMBDA e : e.call \in {"search", "sample", "heuristic"})

\* C1: for every non-empty claim and every outcome of search and sampling,
\* the candidate reference list held after "Deduplicate and cap" has at
\* least one element.
C1_CandidatesNonEmpty == CandidatesResolved => Len(candidate_refs) >= 1

\* C2: after post-processing the candidate reference list holds no two
\* entries that are equal under case-insensitive comparison.
C2_NoCaseInsensitiveDuplicates ==
    \A i, j \in DOMAIN candidate_refs :
        i # j => ~SameIgnoringCase(candidate_refs[i], candidate_refs[j])

\* the sources produced the same reference twice in different letter case,
\* and post-processing kept one of them
C2_Witness ==
    /\ CandidatesResolved
    /\ Len(candidate_refs) = 1
    /\ \E i, j \in DOMAIN resolved :
          /\ i < j
          /\ resolved[i] # resolved[j]
          /\ SameIgnoringCase(resolved[i], resolved[j])
          /\ candidate_refs[1] = resolved[i]

\* C3: for every configured DEFAULT_MAX_RESULTS, 0 and negative values
\* included, the candidate reference list has at most
\* max(1, DEFAULT_MAX_RESULTS) elements after post-processing.
C3_AtMostMaxResults ==
    Len(candidate_refs) <= max(1, settings.DEFAULT_MAX_RESULTS)

\* with a cap of 0 or less, two different references were resolved and one
\* is kept
C3_Witness ==
    /\ CandidatesResolved
    /\ settings.DEFAULT_MAX_RESULTS <= 0
    /\ \E i, j \in DOMAIN resolved :
          /\ strip(resolved[i]) # <<>>
          /\ strip(resolved[j]) # <<>>
          /\ ~SameIgnoringCase(strip(resolved[i]), strip(resolved[j]))
    /\ Len(candidate_refs) = 1

SourceRank(call) ==
    CASE call = "search" -> 1 [] call = "sample" -> 2 [] call = "heuristic" -> 3

\* C4: candidate resolution uses search, sampling and the heuristic table in
\* that order and each at most once; search only with a credential; a search
\* that raises is followed by the sampling extraction and its exception goes
\* no further; sampling that fails or yields nothing is followed by the
\* heuristic table; with a credential sampling never precedes search; the
\* heuristic table is only used after sampling returned nothing.
C4_ResolutionOrder ==
    LET rt == ResolutionTrace
    IN  /\ \A i, j \in DOMAIN rt :
              i < j => SourceRank(rt[i].call) < SourceRank(rt[j].call)
        /\ \A i \in DOMAIN rt :
              /\ rt[i].call = "search" => truthy(settings.BIBLE_API_KEY)
              /\ (rt[i].call = "search" /\ rt[i].outcome = "raised") =>
                    /\ pc # "raised"
                    /\ pc = "extract" \/ (i < Len(rt) /\ rt[i + 1].call = "sample")
              /\ (rt[i].call = "sample" /\ rt[i].outcome # "refs") =>
                    (i < Len(rt) /\ rt[i + 1].call = "heuristic")
              /\ (rt[i].call = "sample" /\ truthy(settings.BIBLE_API_KEY)) =>
                    (i > 1 /\ rt[i - 1].call = "search")
              /\ rt[i].call = "heuristic" =>
                    (i > 1 /\ rt[i - 1].call = "sample" /\ rt[i - 1].outcome # "refs")
        /\ (tool = "analyze_claim" /\ pc = "extract" /\ truthy(settings.BIBLE_API_KEY)) =>
              (rt # <<>> /\ rt[Len(rt)].call = "search")

\* the search raised, the sampling failed, the heuristic table was used
C4_Witness ==
    /\ CandidatesResolved
    /\ Len(ResolutionTrace) = 3
    /\ ResolutionTrace[1] = [call |-> "search", outcome |-> "raised"]
    /\ ResolutionTrace[2] = [call |-> "sample", outcome |-> "failed"]
    /\ ResolutionTrace[3].call = "heuristic"
    /\ candidate_refs # <<>>

\* the claim names money, wealth or riches in some letter case
MentionsMoney(c) == \E w \in money_words : contains(lower(c), w)

\* candidates were resolved with no search result (no credential, or the
\* search raised) and with nothing from the sampling
SearchAndSamplingUnavailable ==
    /\ CandidatesResolved
    /\ \A i \in DOMAIN ResolutionTrace :
          ResolutionTrace[i] # [call |-> "search", outcome |-> "returned"]
    /\ \E i \in DOMAIN ResolutionTrace :
          /\ ResolutionTrace[i].call = "sample"
          /\ ResolutionTrace[i].outcome \in {"failed", "empty"}

\* C5 as stated: for a claim that mentions money, wealth or rich, with search
\* unavailable and nothing from the sampling, the candidate list is the
\* money list truncated to max_results.
C5_MoneyListTruncatedToMaxResults ==
    (SearchAndSamplingUnavailable /\ MentionsMoney(claim)) =>
        candidate_refs = Take(candidate_money_refs, settings.DEFAULT_MAX_RESULTS)

\* C5 as amended: under the same conditions the candidate list is the money
\* list truncated to max(1, max_results): one reference is kept when
\* max_results is 0 or negative.
C5_MoneyListTruncatedToAtLeastOne ==
    (SearchAndSamplingUnavailable /\ MentionsMoney(claim)) =>
        candidate_refs =
            Take(candidate_money_refs, max(1, settings.DEFAULT_MAX_RESULTS))

\* a claim with a capitalised "Wealth" and with "helps themselves", after a
\* search that raised, gets the whole money list
C5_Witness ==
    /\ SearchAndSamplingUnavailable
    /\ MentionsMoney(claim)
    /\ ~\E w \in money_words : contains(claim, w)
    /\ contains(lower(claim), helps_themselves)
    /\ ResolutionTrace[1] = [call |-> "search", outcome |-> "raised"]
    /\ candidate_refs = candidate_money_refs

\* a str that is empty or consists of whitespace only
IsBlank(s) == \A i \in DOMAIN s : isspace(s[i])

\* C6: analyze_claim called with an empty or whitespace-only claim returns
\* {"error": "Empty claim"} as a normal return value, before any search,
\* sampling or passage-fetch call is made.
C6_EmptyClaimIsReturned ==
    (tool = "analyze_claim" /\ IsBlank(claim)) =>
        /\ pc = "returned"
        /\ result = [error |-> S_empty_claim]
        /\ trace = <<>>
        /\ fetch = no_fetch

C6_Witness ==
    /\ tool = "analyze_claim"
    /\ pc = "returned"
    /\ claim = <<>>
    /\ DOMAIN result = {"error"}

\* C7: whatever a search, sampling or passage-fetch call does, analyze_claim
\* and get_reference return a result; no exception leaves the handler.
C7_NoExceptionLeavesHandler == pc # "raised"

StartsWithDigitAndSpace(r) == Len(r) >= 2 /\ isdigit(r[1]) /\ isspace(r[2])

\* the response did not raise and carries a status other than 200
NonSuccess(resp) == ~resp.raises /\ resp.status_code # 200

\* C8: a passage fetch issues at most two HTTP requests; the second only
\* after a non-success first status for a reference that starts with a
\* single digit followed by whitespace, and for the reference with that
\* whitespace removed; a non-success first status for any other reference,
\* a non-success second status, and a success status with an empty verse
\* list each yield absent.
C8_AtMostOneRetry ==
    LET n    == Len(fetch.requests)
        r    == fetch.reference
        done == fetch.outcome \in {"passage", "absent", "raised"}
    IN  /\ n <= 2
        /\ fetch.outcome = "pending" => n = 1
        /\ n = 2 =>
              /\ NonSuccess(fetch.requests[1].response)
              /\ StartsWithDigitAndSpace(r)
              /\ fetch.requests[2].url =
                    S_passage_base
                    \o replace(<<r[1]>> \o lstrip(Tail(r)), " ", "+")
                    \o S_translation_query \o translation
        /\ (done /\ NonSuccess(fetch.requests[1].response)
                 /\ ~StartsWithDigitAndSpace(r)) =>
              (n = 1 /\ fetch.outcome = "absent")
        /\ (done /\ n = 2 /\ NonSuccess(fetch.requests[2].response)) =>
              fetch.outcome = "absent"
        /\ (done /\ ~fetch.requests[n].response.raises
                 /\ fetch.requests[n].response.status_code = 200
                 /\ ~fetch.requests[n].response.json_raises
                 /\ fetch.requests[n].response.verses = <<>>) =>
              fetch.outcome = "absent"

\* the first request failed, the second one for the alternate encoding
\* brought the passage
C8_Witness ==
    /\ Len(fetch.requests) = 2
    /\ fetch.requests[1].response.status_code = 404
    /\ fetch.requests[1].url # fetch.requests[2].url
    /\ fetch.outcome = "passage"

\* C9: get_reference has exactly three outcomes: {"error": "Empty
\* reference"} with no fetch for a reference that is empty after trim;
\* {"error": "Reference not found: <reference>"} when the fetcher yields
\* absent; else the fetcher's Passage, unchanged, with the translation in
\* lower case.
C9_ThreeOutcomes ==
    (tool = "get_reference" /\ pc \in {"returned", "raised"}) =>
        /\ pc = "returned"
        /\ \/ /\ ref = <<>>
              /\ fetch = no_fetch
              /\ result = [error |-> S_empty_reference]
           \/ /\ ref # <<>>
              /\ fetch.outcome = "absent"
              /\ result = [error |-> S_reference_not_found \o ref]
           \/ /\ ref # <<>>
              /\ fetch.outcome = "passage"
              /\ result = read_passage(fetch.requests[Len(fetch.requests)].response,
                                       ref, translation).passage
              /\ result.translation = lower(result.translation)

\* C10 as stated: make_snippet never returns a string longer than limit.
C10_SnippetWithinLimit ==
    snippet_pc = "returned" => Len(snippet) <= limit

\* C10 as amended: for every limit >= 1, make_snippet never returns a string
\* longer than limit.
C10_SnippetWithinPositiveLimit ==
    (snippet_pc = "returned" /\ limit >= 1) => Len(snippet) <= limit

\* a text longer than the limit was cut to the limit
C10_Witness ==
    /\ snippet_pc = "returned"
    /\ text = <<"a", "a", "a">>
    /\ limit = 2
    /\ snippet = <<"a", "...">>

\* C11 as stated: for every text and every limit, applying make_snippet with
\* the same limit to a snippet yields that snippet again.
C11_SnippetIdempotent ==
    snippet_pc = "returned_again" => snippet_again = snippet

\* C11 as amended: for every text and every limit >= 0, applying
\* make_snippet with the same limit to a snippet yields that snippet again.
C11_SnippetIdempotentFromZero ==
    (snippet_pc = "returned_again" /\ limit >= 0) => snippet_again = snippet

\* a text was cut and marked, and the second application left the cut
\* snippet as it was
C11_Witness ==
    /\ snippet_pc = "returned_again"
    /\ text = <<"a", " ", " ", "a">>
    /\ limit = 2
    /\ snippet = <<"a", "...">>
    /\ snippet_again = snippet

\* the passage carries the snippet of its text for the given length
HasSnippet(p, n) ==
    /\ {"snippet", "snippet_chars"} \subseteq DOMAIN p
    /\ p.snippet = make_snippet(p.text, n)
    /\ p.snippet_chars = n

\* the passage carries neither snippet field
HasNoSnippet(p) == {"snippet", "snippet_chars"} \cap DOMAIN p = {}

\* the passages of an analyze_claim result
ResultPassages == result.candidates \o result.challengers

\* C12: every passage analyze_claim returns, among candidates and among
\* challengers, carries snippet and snippet_chars exactly when include_snippets
\* is true and a snippet length is available (the one given, else a non-zero
\* configured default); snippet_chars is then that length. Otherwise no
\* passage carries either field.
C12_SnippetFieldsIffIncluded ==
    (tool = "analyze_claim" /\ claim # <<>>) =>
        /\ settings.DEFAULT_SNIPPET_CHARS # 0 => snippet_limit # None
        /\ pc = "returned" =>
              \A i \in 1..Len(ResultPassages) :
                  IF include_snippets /\ snippet_limit # None
                  THEN HasSnippet(ResultPassages[i], snippet_limit[1])
                  ELSE HasNoSnippet(ResultPassages[i])

\* a call with snippet_chars = 3 returned a challenger whose text is longer
\* than 3 and whose snippet has 3 characters
C12_Witness ==
    /\ tool = "analyze_claim"
    /\ pc = "returned"
    /\ include_snippets
    /\ snippet_limit = Some(3)
    /\ result.challengers # <<>>
    /\ Len(result.challengers[1].text) > 3
    /\ result.challengers[1].snippet_chars = 3
    /\ Len(result.challengers[1].snippet) = 3

\* a call returned a candidate without snippet fields because snippets are
\* switched off
C12_WitnessWithout ==
    /\ tool = "analyze_claim"
    /\ pc = "returned"
    /\ ~include_snippets
    /\ snippet_limit # None
    /\ result.candidates # <<>>
    /\ HasNoSnippet(result.candidates[1])

\* the side names a book, a chapter and a verse
WellFormed(side) == side.book # <<>>

\* "{book} {chapter}:{verse}" of a well-formed side
VerseOf(side) == side.book \o <<" ">> \o side.chapter \o <<":">> \o side.verse

\* what C13 says one or two sides yield
NormalFormOf(ss) ==
    IF \E i \in 1..Len(ss) : ~WellFormed(ss[i]) THEN None
    ELSE IF Len(ss) = 1 THEN Some(VerseOf(ss[1]))
    ELSE IF ss[1].book = ss[2].book /\ ss[1].chapter = ss[2].chapter
         THEN Some(VerseOf(ss[1]) \o <<"-">> \o ss[2].verse)
    ELSE Some(VerseOf(ss[1]) \o <<"-">> \o VerseOf(ss[2]))

\* C13: _normalize_api_bible_id never raises; an identifier of one
\* well-formed side yields "{book} {chapter}:{verse}", one of two well-formed
\* sides yields "{book} {chapter}:{verse1}-{verse2}" when book and chapter
\* agree and "{book1} {chapter1}:{verse1}-{book2} {chapter2}:{verse2}"
\* otherwise, and every other identifier yields None.
C13_NormalizerTable ==
    normalize_pc = "returned" =>
        normalized = IF Len(sides) \in {1, 2} THEN NormalFormOf(sides) ELSE None

\* the same with the sides after the second ignored, as the code has it
C13_FirstTwoSidesDecide ==
    normalize_pc = "returned" =>
        normalized = IF sides = <<>> THEN None
                     ELSE NormalFormOf(SubSeq(sides, 1, min(2, Len(sides))))

\* analyze_claim has settled the challenger references of a non-empty claim
\* with include_challengers true
ChallengersResolved ==
    /\ tool = "analyze_claim"
    /\ claim # <<>>
    /\ include_challengers
    /\ pc \in {"fetch_challengers", "returned"}

\* the challenger sampling call failed or yielded no reference
ProposeYieldedNothing ==
    \E i \in DOMAIN trace :
        trace[i].call = "propose" /\ trace[i].outcome \in {"failed", "empty"}

\* the challenger table entry the claim's keywords select
ChallengerTableFor(c) ==
    IF MentionsMoney(c) THEN challenger_money_refs
    ELSE IF contains(lower(c), helps_themselves) THEN challenger_helps_refs
    ELSE challenger_other_refs

\* every passage fetch the invocation issued has yielded a passage
EveryFetchSucceeded ==
    /\ Len(passages) = IF include_supporting THEN Len(candidate_refs) ELSE 0
    /\ Len(challenging_passages) = Len(challengers)

\* with include_challengers true: the challenger references are never
\* empty, and after a sampling call that failed or yielded nothing they are
\* the head of the table entry for the claim's keywords
ChallengerFallbackUsed ==
    ChallengersResolved =>
        /\ challengers # <<>>
        /\ ProposeYieldedNothing =>
              /\ trace[Len(trace)] = [call |-> "challenger_heuristic", outcome |-> "refs"]
              /\ \E n \in 1..Len(ChallengerTableFor(claim)) :
                    challengers = Take(ChallengerTableFor(claim), n)

\* C14 as stated: when include_challengers is true and the challenger
\* sampling fails or yields no reference, the keyword-matched challenger
\* table is used, so the challenger references are never empty; and when
\* neither search nor sampling is available and every passage fetch
\* succeeds, the result has candidates and challengers.
C14_ChallengerFallback ==
    /\ ChallengerFallbackUsed
    /\ (ChallengersResolved /\ pc = "returned" /\ SearchAndSamplingUnavailable
          /\ ProposeYieldedNothing /\ EveryFetchSucceeded) =>
            (result.candidates # <<>> /\ result.challengers # <<>>)

\* C14 as amended: the same, the result having candidates only when
\* include_supporting is true as well.
C14_ChallengerFallbackWithSupporting ==
    /\ ChallengerFallbackUsed
    /\ (ChallengersResolved /\ pc = "returned" /\ SearchAndSamplingUnavailable
          /\ ProposeYieldedNothing /\ EveryFetchSucceeded) =>
            /\ result.challengers # <<>>
            /\ include_supporting => result.candidates # <<>>

\* without credential and with both sampling calls failing, a call with
\* both lists included returned candidates and challengers from the tables
C14_Witness ==
    /\ ChallengersResolved
    /\ pc = "returned"
    /\ include_supporting
    /\ SearchAndSamplingUnavailable
    /\ trace = <<[call |-> "sample", outcome |-> "failed"],
                 [call |-> "heuristic", outcome |-> "refs"],
                 [call |-> "propose", outcome |-> "failed"],
                 [call |-> "challenger_heuristic", outcome |-> "refs"]>>
    /\ EveryFetchSucceeded
    /\ challengers = challenger_other_refs
    /\ Len(result.candidates) = 3
    /\ Len(result.challengers) = 3

\* C15: when a search credential is configured and the search call returns
\* without any reference, candidate resolution goes on to the sampling
\* extraction instead of stopping with an empty candidate list.
C15_EmptySearchFallsThrough ==
    (CandidatesResolved /\ resolved = <<>>
      /\ ResolutionTrace[1] = [call |-> "search", outcome |-> "returned"]) =>
        /\ Len(ResolutionTrace) >= 2
        /\ ResolutionTrace[2].call = "sample"
        /\ candidate_refs # <<>>

\* the elements of refs that no earlier element equals under Same, in order
FirstOccurrencesBy(refs, Same(_, _)) ==
    LET first == {i \in 1..Len(refs) : ~\E j \in 1..(i - 1) : Same(refs[j], refs[i])}
        nth(k) == CHOOSE i \in first : Cardinality({j \in first : j <= i}) = k
    IN  [k \in 1..Cardinality(first) |-> refs[nth(k)]]

\* the first occurrences of the references under case-insensitive comparison
FirstOccurrences(refs) == FirstOccurrencesBy(refs, SameIgnoringCase)

\* equality of two references when case and surrounding whitespace are
\* ignored
SameIgnoringCaseAndMargin(a, b) == SameIgnoringCase(strip(a), strip(b))

\* the first occurrences of the non-blank references, case and surrounding
\* whitespace ignored
FirstOccurrencesOfNonBlank(refs) ==
    FirstOccurrencesBy(SelectSeq(refs, LAMBDA r : ~IsBlank(r)),
                       SameIgnoringCaseAndMargin)

\* C16 as stated: the candidate list is exactly the first
\* max(1, max_results) elements of the sequence of first occurrences, under
\* case-insensitive comparison, of the resolved references; so a duplicate
\* among the first entries never leaves fewer than
\* min(max_results, number of distinct references).
C16_DeduplicateThenTruncate ==
    CandidatesResolved =>
        /\ candidate_refs =
              Take(FirstOccurrences(resolved), max(1, settings.DEFAULT_MAX_RESULTS))
        /\ Len(candidate_refs) >=
              min(settings.DEFAULT_MAX_RESULTS, Len(FirstOccurrences(resolved)))

\* C16 as amended: the same for the first occurrences of the non-blank
\* resolved references, compared with case and surrounding whitespace
\* ignored.
C16_DeduplicateNonBlankThenTruncate ==
    CandidatesResolved =>
        /\ candidate_refs =
              Take(FirstOccurrencesOfNonBlank(resolved),
                   max(1, settings.DEFAULT_MAX_RESULTS))
        /\ Len(candidate_refs) >=
              min(settings.DEFAULT_MAX_RESULTS,
                  Len(FirstOccurrencesOfNonBlank(resolved)))

\* three references were resolved, the second a duplicate of the first; with
\* a cap of 2 the first and the third are kept
C16_Witness ==
    /\ CandidatesResolved
    /\ settings.DEFAULT_MAX_RESULTS = 2
    /\ Len(resolved) = 3
    /\ SameIgnoringCase(resolved[1], resolved[2])
    /\ candidate_refs = <<resolved[1], resolved[3]>>

\* analyze_claim runs for a non-empty claim
AnalyzeClaimRuns == tool = "analyze_claim" /\ claim # <<>>

\* C17: for every non-empty claim the candidate references are resolved
\* (search, sampling or heuristic table) whatever include_supporting is;
\* candidate passages are fetched only when include_supporting is true; when
\* it is false no candidate passage is fetched and the candidates of the
\* result are empty.
C17_SupportingGatesFetchOnly ==
    AnalyzeClaimRuns =>
        /\ pc = "fetch_supporting" => include_supporting
        /\ pc \in {"propose", "fetch_challengers", "returned"} =>
              ResolutionTrace # <<>>
        /\ ~include_supporting =>
              /\ passages = <<>>
              /\ fetch.reference # <<>> =>
                    \E i \in DOMAIN challengers : fetch.reference = challengers[i]
              /\ pc = "returned" => result.candidates = <<>>

\* with include_supporting false a credentialed search resolved two
\* candidate references, none was fetched, and the call returned without
\* candidates but with a challenger
C17_Witness ==
    /\ AnalyzeClaimRuns
    /\ ~include_supporting
    /\ pc = "returned"
    /\ ResolutionTrace = <<[call |-> "search", outcome |-> "returned"]>>
    /\ Len(candidate_refs) = 2
    /\ result.candidates = <<>>
    /\ result.challengers # <<>>

\* C18: when include_challengers is false, by argument or by default,
\* analyze_claim makes no challenger sampling call, uses no challenger table,
\* fetches no challenger passage and returns an empty challengers list.
C18_ChallengersOnlyIfIncluded ==
    (AnalyzeClaimRuns /\ ~include_challengers) =>
        /\ pc \notin {"propose", "fetch_challengers"}
        /\ \A i \in DOMAIN trace :
              trace[i].call \notin {"propose", "challenger_heuristic"}
        /\ challengers = <<>>
        /\ challenging_passages = <<>>
        /\ fetch.reference # <<>> =>
              \E i \in DOMAIN candidate_refs : fetch.reference = candidate_refs[i]
        /\ pc = "returned" => result.challengers = <<>>

\* with include_challengers false a call fetched its candidates and
\* returned them, with no challenger
C18_Witness ==
    /\ AnalyzeClaimRuns
    /\ ~include_challengers
    /\ include_supporting
    /\ pc = "returned"
    /\ Len(result.candidates) = 2
    /\ result.challengers = <<>>
    /\ fetch.outcome = "passage"

\* the step answers the first GET of a fetch and a second GET follows
RetryFollows == attempt = 1 /\ attempt' = 2

\* the step ends the fetch of refs[idx], in the loop that collects into got
\* (got_after once the step is taken): a passage for refs[idx] is appended, a
\* failure changes nothing, and the loop goes on to the next reference
FetchEnds(refs, got, got_after) ==
    /\ fetch'.outcome \in {"passage", "absent", "raised"}
    /\ fetch'.outcome = "passage" =>
          /\ Len(got_after) = Len(got) + 1
          /\ SubSeq(got_after, 1, Len(got)) = got
          /\ got_after[Len(got_after)].reference = refs[idx]
    /\ fetch'.outcome # "passage" => got_after = got
    /\ idx < Len(refs) => (pc' = pc /\ idx' = idx + 1 /\ attempt' = 1)
    /\ idx = Len(refs) => pc' \in {"propose", "returned"}

\* what one step of an analyze_claim invocation does to the fetch loops
OneFetchAtATime ==
    /\ pc \in {"fetch_supporting", "fetch_challengers"} =>
          LET refs == IF pc = "fetch_supporting" THEN candidate_refs ELSE challengers
          IN  /\ idx \in 1..Len(refs)
              /\ fetch'.reference = refs[idx]
              /\ candidate_refs' = candidate_refs
              /\ challengers' = challengers
              /\ RetryFollows =>
                    /\ fetch'.outcome = "pending"
                    /\ UNCHANGED <<pc, idx, passages, challenging_passages>>
              /\ (~RetryFollows /\ pc = "fetch_supporting") =>
                    /\ FetchEnds(candidate_refs, passages, passages')
                    /\ challenging_passages' = <<>>
              /\ (~RetryFollows /\ pc = "fetch_challengers") =>
                    /\ FetchEnds(challengers, challenging_passages,
                                 challenging_passages')
                    /\ passages' = passages
                    /\ pc' # "propose"
    /\ (pc' = "fetch_supporting" /\ pc # "fetch_supporting") =>
          (pc \in {"search", "extract"} /\ idx' = 1 /\ passages' = <<>>)
    /\ pc = "propose" => passages' = passages
    /\ (pc' = "fetch_challengers" /\ pc # "fetch_challengers") =>
          (pc = "propose" /\ idx' = 1 /\ challenging_passages' = <<>>)
    /\ (pc' = "returned" /\ tool' = "analyze_claim" /\ claim' # <<>>) =>
          /\ DOMAIN result' = {"claim", "translation", "context_verses",
                                "candidates", "challengers"}
          /\ result'.candidates = passages'
          /\ result'.challengers = challenging_passages'

\* C19: the passage fetches of one analyze_claim invocation are made one at
\* a time in list order, the candidates first and the challengers after
\* them; a fetch that raises or yields nothing leaves out that reference
\* only, and every later reference is still fetched; the candidates and
\* challengers returned are the fetched passages in the order of their
\* reference lists; the result has no error field.
C19_SequentialFetches == [][OneFetchAtATime]_vars

\* the references of a list of passages
ReferencesOf(ps) == [i \in 1..Len(ps) |-> ps[i].reference]

\* the first of two candidate fetches and the second of three challenger
\* fetches failed; the result holds the other passages in list order
C19_Witness ==
    /\ AnalyzeClaimRuns
    /\ pc = "returned"
    /\ Len(candidate_refs) = 2
    /\ ReferencesOf(result.candidates) = <<candidate_refs[2]>>
    /\ Len(challengers) = 3
    /\ ReferencesOf(result.challengers) = <<challengers[1], challengers[3]>>

\* an invocation that has ended, the running one or the suspended one, has
\* ended as it ends alone with the answers it was given
EndsAsAlone ==
    /\ pc \in {"returned", "raised"} =>
          (pc = run_alone(log).pc /\ result = run_alone(log).result)
    /\ parked.frame.pc \in {"returned", "raised"} =>
          /\ parked.frame.pc = run_alone(parked.log).pc
          /\ parked.frame.result = run_alone(parked.log).result

\* settings is what it was when the running invocation and when the
\* suspended one were called
SettingsAsCalled ==
    /\ log # <<>> => settings = log[1].settings
    /\ parked.log # <<>> => settings = parked.log[1].settings

\* C20: two invocations of analyze_claim or get_reference interleaved at
\* their awaits (search, sampling, passage fetch) each return what they
\* return when run alone with the same answers of their collaborators, and
\* no step of an invocation changes settings.
C20_NoSharedMutableState == EndsAsAlone /\ SettingsAsCalled

\* an analyze_claim invocation has returned a candidate and a challenger
\* while another one, started before that return, is suspended in its
\* challenger fetches with a candidate passage of its own
C20_Witness ==
    /\ tool = "analyze_claim"
    /\ pc = "returned"
    /\ Len(result.candidates) = 1
    /\ Len(result.challengers) = 1
    /\ parked.frame.tool = "analyze_claim"
    /\ parked.frame.pc = "fetch_challengers"
    /\ Len(parked.frame.passages) = 1
    /\ parked.log # log
====
